---- MODULE Spec2Model ----
(***************************************************************************)
(* A model of ruler (nicavcrm/ruler): conversion of rule files between the *)
(* Cursor schema (schema A, .mdc) and the GitHub Copilot schema (schema B, *)
(* .instructions.md).  Text is modelled as it is in the program: a string  *)
(* is a sequence of characters, each character a one-character TLA+ string.*)
(* An Option<T> is a sequence of length 0 (None) or 1 (Some(x)).           *)
(***************************************************************************)
EXTENDS Integers, Sequences, FiniteSets, TLC

VARIABLES
    pc,          \* position of the driver of the specification being checked
    \* SpecSplit
    content,     \* the raw document text handed to the splitter
    split,       \* the value parse_frontmatter_with_field_info returned
    \* SpecGlobs
    patterns,    \* a list of glob patterns
    decoded_c,   \* the globs decoded from its one-quoted-string line
    decoded_d,   \* the globs decoded from its several-quoted-strings line
    \* SpecNorm
    header,      \* a header text handed to the normalizer
    pre1,        \* preprocess_frontmatter(header)
    pre2,        \* preprocess_frontmatter(pre1)
    \* SpecConv
    source,      \* the text of a source file
    conv,        \* what converting it left behind (see Conversion)
    resplit,     \* the written output, split again
    back,        \* what converting the written output back left behind
    \* SpecBatch
    direction,      \* "c2g" (convert_cursor_to_github) or "g2c"
    source_dir,     \* the files of from_dir: a set of [path, text]
    source_files,   \* the discovered files the loop has not handled yet
    target_dir,     \* the files of to_dir: a set of [path, text]
    success_count,
    error_count,
    \* SpecTrans
    cursor_rec,  \* a schema-A record (input of A -> B, result of B -> A)
    presence,    \* the presence flags (FieldInfo) that go with cursor_rec
    github_rec,  \* a schema-B record (result of A -> B, input of B -> A)
    emitted,     \* the header text serialize_github_metadata wrote
    back_rec,    \* the schema-A record translated back from github_rec
    \* SpecDecode
    globs_value, \* the YAML value of the globs key: None when the key is absent
    globs_result,\* what decoding it gave
    \* SpecScan
    scan_header, \* a header text handed to the presence scanner
    scan_info    \* analyze_frontmatter_fields(scan_header)

splitVars == <<content, split>>
globsVars == <<patterns, decoded_c, decoded_d>>
normVars == <<header, pre1, pre2>>
convVars == <<source, conv, resplit, back>>
batchVars == <<direction, source_dir, source_files, target_dir, success_count, error_count>>
transVars == <<cursor_rec, presence, github_rec, emitted>>
roundVars == <<back_rec>>
decodeVars == <<globs_value, globs_result>>
scanVars == <<scan_header, scan_info>>
vars == <<pc, splitVars, globsVars, normVars, convVars, batchVars, transVars,
          roundVars, decodeVars, scanVars>>

None == <<>>
Some(x) == <<x>>
IsSome(o) == Len(o) = 1
Unwrap(o) == o[1]

(***************************************************************************)
(* Bounds of the model.                                                    *)
(***************************************************************************)
MaxLines == 4      \* lines of a document handed to the splitter
MaxPatterns == 3   \* patterns of a glob list
MaxHeaderLines == 2 \* lines of a header handed to the normalizer
MaxScanLines == 2   \* lines of a header handed to the presence scanner
MaxPieces == 2      \* comma-separated pieces of a string handed to the globs decoder

(***************************************************************************)
(* str primitives of the Rust standard library, as the program uses them.  *)
(***************************************************************************)
IsWs(c) == c \in {" ", "\n", "\t", "\r"}

RECURSIVE trim_start(_)
trim_start(s) ==
    IF s = <<>> THEN s
    ELSE IF IsWs(Head(s)) THEN trim_start(Tail(s)) ELSE s

RECURSIVE trim_end(_)
trim_end(s) ==
    IF s = <<>> THEN s
    ELSE IF IsWs(s[Len(s)]) THEN trim_end(SubSeq(s, 1, Len(s) - 1)) ELSE s

trim(s) == trim_end(trim_start(s))

starts_with(s, p) == Len(s) >= Len(p) /\ SubSeq(s, 1, Len(p)) = p

ends_with(s, p) == Len(s) >= Len(p) /\ SubSeq(s, Len(s) - Len(p) + 1, Len(s)) = p

contains(s, p) == \E i \in 1..(Len(s) - Len(p) + 1) : SubSeq(s, i, i + Len(p) - 1) = p

\* str::find(char): the index of the first occurrence, 0 when there is none
find(s, c) ==
    IF \E i \in 1..Len(s) : s[i] = c
    THEN CHOOSE i \in 1..Len(s) : s[i] = c /\ \A j \in 1..(i - 1) : s[j] # c
    ELSE 0

\* str::split(char): always at least one piece, empty pieces kept
RECURSIVE split_char(_, _)
split_char(s, c) ==
    LET i == find(s, c)
    IN  IF i = 0 THEN <<s>>
        ELSE <<SubSeq(s, 1, i - 1)>> \o split_char(SubSeq(s, i + 1, Len(s)), c)

\* str::lines(): the pieces between "\n"; a final empty piece is no line; the
\* "\r" of a "\r\n" ending is dropped, a bare "\r" that ends the text is kept
lines(s) ==
    LET parts == split_char(s, "\n")
        n     == Len(parts)
        kept  == IF parts[n] = <<>> THEN SubSeq(parts, 1, n - 1) ELSE parts
    IN  [i \in 1..Len(kept) |->
            IF i < n /\ kept[i] # <<>> /\ kept[i][Len(kept[i])] = "\r"
            THEN SubSeq(kept[i], 1, Len(kept[i]) - 1) ELSE kept[i]]

\* [&str]::join(sep)
RECURSIVE join(_, _)
join(ss, sep) ==
    IF ss = <<>> THEN <<>>
    ELSE IF Len(ss) = 1 THEN ss[1]
    ELSE ss[1] \o sep \o join(Tail(ss), sep)

(***************************************************************************)
(* Text constants of the program.                                          *)
(***************************************************************************)
DELIM == <<"-", "-", "-">>
NL == <<"\n">>
KeyDescription == <<"d", "e", "s", "c", "r", "i", "p", "t", "i", "o", "n">>
KeyGlobs == <<"g", "l", "o", "b", "s">>
Colon == <<":">>

(***************************************************************************)
(* Field Presence Scanner.                                                 *)
(***************************************************************************)
FieldInfoDefault == [description_present |-> FALSE, globs_present |-> FALSE]

\* a scanner that matches the keys without trimming the line
analyze_frontmatter_fields_untrimmed(frontmatter) ==
    LET ls == lines(frontmatter)
    IN  [description_present |->
            \E i \in 1..Len(ls) : starts_with(ls[i], KeyDescription \o Colon),
         globs_present |->
            \E i \in 1..Len(ls) : starts_with(ls[i], KeyGlobs \o Colon)]

analyze_frontmatter_fields(frontmatter) ==
    LET ls == lines(frontmatter)
    IN  [description_present |->
            \E i \in 1..Len(ls) : starts_with(trim(ls[i]), KeyDescription \o Colon),
         globs_present |->
            \E i \in 1..Len(ls) :
                /\ ~starts_with(trim(ls[i]), KeyDescription \o Colon)
                /\ starts_with(trim(ls[i]), KeyGlobs \o Colon)]

(***************************************************************************)
(* Header Splitter.                                                        *)
(***************************************************************************)
\* a scan that stops at the last delimiter line instead of the first
frontmatter_end_last(ls) ==
    IF \E i \in 2..Len(ls) : trim(ls[i]) = DELIM
    THEN Some((CHOOSE i \in 2..Len(ls) :
                 trim(ls[i]) = DELIM /\ \A j \in (i + 1)..Len(ls) : trim(ls[j]) # DELIM) - 1)
    ELSE None

\* the index (0-based, as in the program) of the first line after line 0 that
\* is the delimiter once trimmed; None when there is none
frontmatter_end(ls) ==
    IF \E i \in 2..Len(ls) : trim(ls[i]) = DELIM
    THEN Some((CHOOSE i \in 2..Len(ls) :
                 trim(ls[i]) = DELIM /\ \A j \in 2..(i - 1) : trim(ls[j]) # DELIM) - 1)
    ELSE None

\* a splitter without the test for fewer than 3 lines
parse_frontmatter_any_length(raw) ==
    LET c   == trim(raw)
        ls  == lines(c)
        fe  == frontmatter_end(ls)
        no_header == [frontmatter |-> None, body |-> c, field_info |-> FieldInfoDefault]
    IN  IF ~starts_with(c, DELIM) THEN no_header
        ELSE IF ~IsSome(fe) THEN no_header
        ELSE LET end == Unwrap(fe)
                 fm  == join(SubSeq(ls, 2, end), NL)
                 bd  == IF end + 1 < Len(ls)
                        THEN trim_start(join(SubSeq(ls, end + 2, Len(ls)), NL))
                        ELSE <<>>
             IN  [frontmatter |-> Some(fm), body |-> bd,
                  field_info |-> analyze_frontmatter_fields(fm)]

parse_frontmatter_with_field_info(raw) ==
    LET c   == trim(raw)
        ls  == lines(c)
        fe  == frontmatter_end(ls)
        no_header == [frontmatter |-> None, body |-> c, field_info |-> FieldInfoDefault]
    IN  IF ~starts_with(c, DELIM) THEN no_header
        ELSE IF Len(ls) < 3 THEN no_header
        ELSE IF ~IsSome(fe) THEN no_header
        ELSE LET end == Unwrap(fe)
                 \* lines[1..end], 0-based and end-exclusive
                 fm  == join(SubSeq(ls, 2, end), NL)
                 \* lines[end + 1..]
                 bd  == IF end + 1 < Len(ls)
                        THEN trim_start(join(SubSeq(ls, end + 2, Len(ls)), NL))
                        ELSE <<>>
             IN  [frontmatter |-> Some(fm), body |-> bd,
                  field_info |-> analyze_frontmatter_fields(fm)]

parse_frontmatter(raw) ==
    LET r == parse_frontmatter_with_field_info(raw)
    IN  [frontmatter |-> r.frontmatter, body |-> r.body]

(***************************************************************************)
(* Glob Normalizer.                                                        *)
(***************************************************************************)
DQ == "\""
SQ == "'"
Comma == <<",">>
CommaSpace == <<",", " ">>

\* one layer of surrounding quotes as the program tests for it
quoted(v) ==
    \/ starts_with(v, <<DQ>>) /\ ends_with(v, <<DQ>>)
    \/ starts_with(v, <<SQ>>) /\ ends_with(v, <<SQ>>)

\* the pieces of v between commas, trimmed, the empty ones dropped
RECURSIVE trimmed_items(_)
trimmed_items(pieces) ==
    IF pieces = <<>> THEN <<>>
    ELSE LET t == trim(Head(pieces))
         IN  (IF t = <<>> THEN <<>> ELSE <<t>>) \o trimmed_items(Tail(pieces))

requote(items) == [i \in 1..Len(items) |-> <<DQ>> \o items[i] \o <<DQ>>]

\* a normalizer that takes every comma-bearing globs value for one string of
\* comma-separated items (no test for several quoted strings)
preprocess_line_single_string(line) ==
    LET colon_pos == find(line, ":")
        key   == SubSeq(line, 1, colon_pos - 1)
        value == trim(SubSeq(line, colon_pos + 1, Len(line)))
        unquoted == IF quoted(value) THEN SubSeq(value, 2, Len(value) - 1) ELSE value
        array_items == requote(trimmed_items(split_char(unquoted, ",")))
    IN  IF /\ colon_pos # 0
           /\ trim(key) = KeyGlobs
           /\ contains(value, Comma)
           /\ ~starts_with(value, <<"[">>)
           /\ array_items # <<>>
        THEN key \o <<":", " ", "[">> \o join(array_items, CommaSpace) \o <<"]">>
        ELSE line

\* a normalizer that rewrites the comma-bearing value of any key
preprocess_line_any_key(line) ==
    LET colon_pos == find(line, ":")
        key   == SubSeq(line, 1, colon_pos - 1)
        value == trim(SubSeq(line, colon_pos + 1, Len(line)))
        format1 == \/ contains(value, <<DQ, ",", " ", DQ>>)
                   \/ contains(value, <<SQ, ",", " ", SQ>>)
        unquoted == IF quoted(value) THEN SubSeq(value, 2, Len(value) - 1) ELSE value
        array_items == IF format1
                       THEN trimmed_items(split_char(value, ","))
                       ELSE requote(trimmed_items(split_char(unquoted, ",")))
    IN  IF /\ colon_pos # 0
           /\ contains(value, Comma)
           /\ ~starts_with(value, <<"[">>)
           /\ array_items # <<>>
        THEN key \o <<":", " ", "[">> \o join(array_items, CommaSpace) \o <<"]">>
        ELSE line

\* a normalizer that also rewrites a globs value that starts with "["
preprocess_line_rebracket(line) ==
    LET colon_pos == find(line, ":")
        key   == SubSeq(line, 1, colon_pos - 1)
        value == trim(SubSeq(line, colon_pos + 1, Len(line)))
        format1 == \/ contains(value, <<DQ, ",", " ", DQ>>)
                   \/ contains(value, <<SQ, ",", " ", SQ>>)
        unquoted == IF quoted(value) THEN SubSeq(value, 2, Len(value) - 1) ELSE value
        array_items == IF format1
                       THEN trimmed_items(split_char(value, ","))
                       ELSE requote(trimmed_items(split_char(unquoted, ",")))
    IN  IF /\ colon_pos # 0
           /\ trim(key) = KeyGlobs
           /\ contains(value, Comma)
           /\ array_items # <<>>
        THEN key \o <<":", " ", "[">> \o join(array_items, CommaSpace) \o <<"]">>
        ELSE line

\* one line of the header: the line the normalizer emits for it (without
\* the newline it appends)
preprocess_line(line) ==
    LET colon_pos == find(line, ":")
        key   == SubSeq(line, 1, colon_pos - 1)
        value == trim(SubSeq(line, colon_pos + 1, Len(line)))
        format1 == \/ contains(value, <<DQ, ",", " ", DQ>>)
                   \/ contains(value, <<SQ, ",", " ", SQ>>)
        unquoted == IF quoted(value) THEN SubSeq(value, 2, Len(value) - 1) ELSE value
        array_items == IF format1
                       THEN trimmed_items(split_char(value, ","))
                       ELSE requote(trimmed_items(split_char(unquoted, ",")))
    IN  IF /\ colon_pos # 0
           /\ trim(key) = KeyGlobs
           /\ contains(value, Comma)
           /\ ~starts_with(value, <<"[">>)
           /\ array_items # <<>>
        THEN key \o <<":", " ", "[">> \o join(array_items, CommaSpace) \o <<"]">>
        ELSE line

RECURSIVE concat_lines(_)
concat_lines(ls) ==
    IF ls = <<>> THEN <<>> ELSE Head(ls) \o NL \o concat_lines(Tail(ls))

preprocess_frontmatter(frontmatter) ==
    LET ls == lines(frontmatter)
    IN  concat_lines([i \in 1..Len(ls) |-> preprocess_line(ls[i])])

(***************************************************************************)
(* Strict Metadata Decoder: serde_yaml::from_str on a header.              *)
(* The fragment of YAML modelled is the one the headers of this model use: *)
(* a block mapping of one `key: value` line per key, all at one            *)
(* indentation, the value empty, a plain scalar, a single- or double-quoted*)
(* scalar, or a one-line flow sequence of scalars.  A YAML node is         *)
(* [t, s, items]: t its resolved type, s the text of a scalar, items the   *)
(* element texts of a sequence.                                            *)
(***************************************************************************)
Node(t, s, items) == [t |-> t, s |-> s, items |-> items]
ErrNode == Node("err", <<>>, <<>>)
Scan(ok, v, rest) == [ok |-> ok, v |-> v, rest |-> rest]
ScanErr == Scan(FALSE, <<>>, <<>>)

TextTrue == <<"t", "r", "u", "e">>
TextFalse == <<"f", "a", "l", "s", "e">>
TextNull == <<"n", "u", "l", "l">>

\* the escapes of a double-quoted scalar, for the characters of this model;
\* "BEL" stands for the bell character \a denotes; any other escaped
\* character of the model's alphabets is no escape of YAML
yaml_escape(c) ==
    CASE c = "\\" -> <<"\\">>
      [] c = DQ -> <<DQ>>
      [] c = "/" -> <<"/">>
      [] c = " " -> <<" ">>
      [] c = "n" -> <<"\n">>
      [] c = "t" -> <<"\t">>
      [] c = "a" -> <<"BEL">>
      [] OTHER -> None

\* the text after an opening double quote: up to the closing one
RECURSIVE yaml_double(_, _)
yaml_double(s, acc) ==
    IF s = <<>> THEN ScanErr
    ELSE IF s[1] = DQ THEN Scan(TRUE, acc, Tail(s))
    ELSE IF s[1] = "\\"
         THEN IF Len(s) < 2 \/ yaml_escape(s[2]) = None THEN ScanErr
              ELSE yaml_double(SubSeq(s, 3, Len(s)), acc \o yaml_escape(s[2]))
    ELSE yaml_double(Tail(s), Append(acc, s[1]))

\* the text after an opening single quote: '' is a quote, ' closes
RECURSIVE yaml_single(_, _)
yaml_single(s, acc) ==
    IF s = <<>> THEN ScanErr
    ELSE IF s[1] = SQ
         THEN IF Len(s) >= 2 /\ s[2] = SQ
              THEN yaml_single(SubSeq(s, 3, Len(s)), Append(acc, SQ))
              ELSE Scan(TRUE, acc, Tail(s))
    ELSE yaml_single(Tail(s), Append(acc, s[1]))

\* what may follow a complete value on its line: blanks, or a comment
yaml_rest_ok(r) ==
    LET t == trim_start(r) IN t = <<>> \/ (t[1] = "#" /\ Len(t) < Len(r))

\* characters no plain scalar starts with
YamlIndicators == {",", "[", "]", "{", "}", "#", "&", "*", "!", "|", ">", "%", "@"}

yaml_block_entry(s) ==
    /\ s # <<>>
    /\ s[1] \in {"-", "?", ":"}
    /\ (Len(s) = 1 \/ s[2] = " ")

\* the type a plain scalar resolves to
yaml_plain_type(s) ==
    IF s = <<>> \/ s = <<"~">> \/ s = TextNull THEN "null"
    ELSE IF s = TextTrue \/ s = TextFalse THEN "bool"
    ELSE "str"

\* a plain scalar inside a flow sequence ends before , [ ] { }
RECURSIVE yaml_flow_plain(_, _)
yaml_flow_plain(s, acc) ==
    IF s = <<>> THEN Scan(TRUE, trim_end(acc), s)
    ELSE IF s[1] \in {",", "[", "]", "{", "}"} THEN Scan(TRUE, trim_end(acc), s)
    ELSE IF s[1] = ":" /\ (Len(s) = 1 \/ s[2] \in {" ", ",", "[", "]", "{", "}"})
         THEN ScanErr    \* a mapping inside the sequence: no string element
    ELSE IF s[1] = "#" /\ acc # <<>> /\ acc[Len(acc)] = " " THEN ScanErr
    ELSE yaml_flow_plain(Tail(s), Append(acc, s[1]))

yaml_flow_item(s) ==
    IF s[1] = DQ THEN yaml_double(Tail(s), <<>>)
    ELSE IF s[1] = SQ THEN yaml_single(Tail(s), <<>>)
    ELSE IF s[1] \in YamlIndicators \/ yaml_block_entry(s) THEN ScanErr
    ELSE yaml_flow_plain(s, <<>>)

\* the text after "[": the elements up to the closing "]"
RECURSIVE yaml_flow_seq(_, _)
yaml_flow_seq(s0, acc) ==
    LET s == trim_start(s0)
    IN  IF s = <<>> THEN ScanErr
        ELSE IF s[1] = "]" THEN Scan(TRUE, acc, Tail(s))
        ELSE LET item == yaml_flow_item(s)
                 r    == trim_start(item.rest)
             IN  IF ~item.ok \/ r = <<>> THEN ScanErr
                 ELSE IF r[1] = "," THEN yaml_flow_seq(Tail(r), Append(acc, item.v))
                 ELSE IF r[1] = "]" THEN Scan(TRUE, Append(acc, item.v), Tail(r))
                 ELSE ScanErr

\* the text before a comment, for a plain scalar of a block mapping
yaml_uncomment(v) ==
    IF contains(v, <<" ", "#">>)
    THEN SubSeq(v, 1, (CHOOSE i \in 1..Len(v) :
                          /\ SubSeq(v, i, i + 1) = <<" ", "#">>
                          /\ \A j \in 1..(i - 1) : SubSeq(v, j, j + 1) # <<" ", "#">>) - 1)
    ELSE v

\* the node of the value text of a `key: value` line
yaml_value(raw) ==
    LET v == trim(raw)
    IN  IF v = <<>> THEN Node("null", <<>>, <<>>)
        ELSE IF v[1] = DQ
             THEN LET r == yaml_double(Tail(v), <<>>)
                  IN  IF r.ok /\ yaml_rest_ok(r.rest) THEN Node("str", r.v, <<>>) ELSE ErrNode
        ELSE IF v[1] = SQ
             THEN LET r == yaml_single(Tail(v), <<>>)
                  IN  IF r.ok /\ yaml_rest_ok(r.rest) THEN Node("str", r.v, <<>>) ELSE ErrNode
        ELSE IF v[1] = "["
             THEN LET r == yaml_flow_seq(Tail(v), <<>>)
                  IN  IF r.ok /\ yaml_rest_ok(r.rest) THEN Node("seq", <<>>, r.v) ELSE ErrNode
        ELSE IF v[1] = "#" THEN Node("null", <<>>, <<>>)
        ELSE IF v[1] \in YamlIndicators \/ yaml_block_entry(v) THEN ErrNode
        ELSE LET p == trim(yaml_uncomment(v))
             IN  IF contains(p, <<":", " ">>) \/ ends_with(p, Colon) THEN ErrNode
                 ELSE Node(yaml_plain_type(p), p, <<>>)

\* the position of the colon that ends the key of a line: the first one
\* followed by a blank or by the end of the line; 0 when there is none
yaml_key_end(l) ==
    IF \E i \in 1..Len(l) : l[i] = ":" /\ (i = Len(l) \/ l[i + 1] = " ")
    THEN CHOOSE i \in 1..Len(l) :
            /\ l[i] = ":" /\ (i = Len(l) \/ l[i + 1] = " ")
            /\ \A j \in 1..(i - 1) : ~(l[j] = ":" /\ l[j + 1] = " ")
    ELSE 0

\* the entries of the mapping: one <<key, node>> per line that is not blank;
\* a line that is no `key: value` line yields an "err" entry
yaml_entry(l) ==
    LET t == trim(l)
        k == yaml_key_end(t)
    IN  IF k <= 1 \/ t[1] \in YamlIndicators \cup {DQ, SQ} \/ yaml_block_entry(t)
        THEN <<<<>>, ErrNode>>
        ELSE <<SubSeq(t, 1, k - 1), yaml_value(SubSeq(t, k + 1, Len(t)))>>

RECURSIVE yaml_entries(_)
yaml_entries(ls) ==
    IF ls = <<>> THEN <<>>
    ELSE (IF trim(Head(ls)) = <<>> \/ Head(trim(Head(ls))) = "#"
          THEN <<>> ELSE <<yaml_entry(Head(ls))>>) \o yaml_entries(Tail(ls))

yaml_mapping(text) == yaml_entries(lines(text))

yaml_well_formed(m) == \A i \in 1..Len(m) : m[i][2].t # "err"

yaml_has(m, key) == \E i \in 1..Len(m) : m[i][1] = key
yaml_get(m, key) == m[CHOOSE i \in 1..Len(m) : m[i][1] = key][2]

(***************************************************************************)
(* The typed records and their field decoders.  A decoding ends "ok" with  *)
(* a value, "err" (a Result::Err, the per-file error) or "panic" (the      *)
(* thread unwinds: an out-of-range slice).                                 *)
(***************************************************************************)
KeyName == <<"n", "a", "m", "e">>
KeyAlwaysApply == <<"a", "l", "w", "a", "y", "s", "A", "p", "p", "l", "y">>
KeyAuthors == <<"a", "u", "t", "h", "o", "r", "s">>
KeyTags == <<"t", "a", "g", "s">>
KeyVersion == <<"v", "e", "r", "s", "i", "o", "n">>
KeyApplyTo == <<"a", "p", "p", "l", "y", "T", "o">>
StarStar == <<"*", "*">>

Outcome(kind, v) == [kind |-> kind, v |-> v]

\* strip one layer of surrounding quotes: s[1..s.len()-1]
strip_quotes(s) ==
    IF quoted(s)
    THEN IF Len(s) < 2 THEN Outcome("panic", <<>>)
         ELSE Outcome("ok", SubSeq(s, 2, Len(s) - 1))
    ELSE Outcome("ok", s)

\* GlobsVisitor::visit_str
visit_str(value) ==
    IF contains(value, Comma)
    THEN LET pieces == split_char(value, ",")
             mapped == [i \in 1..Len(pieces) |-> strip_quotes(trim(pieces[i]))]
         IN  IF \E i \in 1..Len(mapped) : mapped[i].kind = "panic"
             THEN Outcome("panic", None)
             ELSE Outcome("ok", Some(SelectSeq([i \in 1..Len(mapped) |-> mapped[i].v],
                                               LAMBDA x : x # <<>>)))
    ELSE LET cleaned == strip_quotes(value)
         IN  IF cleaned.kind = "panic" THEN Outcome("panic", None)
             ELSE Outcome("ok", Some(<<cleaned.v>>))

\* deserialize_any with GlobsVisitor
deserialize_globs(node) ==
    CASE node.t = "null" -> Outcome("ok", None)
      [] node.t = "str"  -> visit_str(node.s)
      [] node.t = "seq"  -> Outcome("ok", Some(node.items))
      [] OTHER           -> Outcome("err", None)

\* the globs field of CursorMetadata: `default` gives None when the key is
\* absent, deserialize_globs decodes the value otherwise
decode_globs_field(value) ==
    IF value = None THEN Outcome("ok", None) ELSE deserialize_globs(Unwrap(value))

\* Option<String>
deserialize_opt_string(node) ==
    CASE node.t = "null" -> Outcome("ok", None)
      [] node.t \in {"str", "bool"} -> Outcome("ok", Some(node.s))
      [] OTHER -> Outcome("err", None)

\* Option<bool>
deserialize_opt_bool(node) ==
    CASE node.t = "null" -> Outcome("ok", None)
      [] node.t = "bool" -> Outcome("ok", Some(node.s = TextTrue))
      [] OTHER -> Outcome("err", None)

\* Option<Vec<String>>
deserialize_opt_vec(node) ==
    CASE node.t = "null" -> Outcome("ok", None)
      [] node.t = "seq" -> Outcome("ok", Some(node.items))
      [] OTHER -> Outcome("err", None)

CursorKeys == {KeyName, KeyDescription, KeyGlobs, KeyAlwaysApply, KeyAuthors, KeyTags,
               KeyVersion}
GithubKeys == {KeyDescription, KeyApplyTo}

cursor_field(key, node) ==
    CASE key = KeyGlobs -> deserialize_globs(node)
      [] key = KeyAlwaysApply -> deserialize_opt_bool(node)
      [] key \in {KeyAuthors, KeyTags} -> deserialize_opt_vec(node)
      [] key \in {KeyName, KeyDescription, KeyVersion} -> deserialize_opt_string(node)
      [] OTHER -> Outcome("ok", None)       \* an unknown key is ignored

github_field(key, node) ==
    CASE key \in GithubKeys -> deserialize_opt_string(node)
      [] OTHER -> Outcome("ok", None)

\* the decoder of one key of a struct: schema is "cursor" (CursorMetadata)
\* or "github" (GithubMetadata)
struct_keys(schema) == IF schema = "cursor" THEN CursorKeys ELSE GithubKeys

struct_field(schema, key, node) ==
    IF schema = "cursor" THEN cursor_field(key, node) ELSE github_field(key, node)

\* the outcome of the i-th entry of mapping m: a known key met twice is the
\* error "duplicate field"
entry_outcome(m, i, schema) ==
    IF m[i][1] \in struct_keys(schema) /\ \E j \in 1..(i - 1) : m[j][1] = m[i][1]
    THEN Outcome("err", None)
    ELSE struct_field(schema, m[i][1], m[i][2])

\* the entries are decoded in the order of the document: the first one that
\* does not end "ok" ends the decoding
struct_kind(m, schema) ==
    IF ~yaml_well_formed(m) THEN "err"
    ELSE IF \E i \in 1..Len(m) : entry_outcome(m, i, schema).kind # "ok"
    THEN entry_outcome(m, CHOOSE i \in 1..Len(m) :
            /\ entry_outcome(m, i, schema).kind # "ok"
            /\ \A j \in 1..(i - 1) : entry_outcome(m, j, schema).kind = "ok",
            schema).kind
    ELSE "ok"

struct_get(m, key, schema) ==
    IF yaml_has(m, key) THEN struct_field(schema, key, yaml_get(m, key)).v ELSE None

CursorMetadataDefault ==
    [name |-> None, description |-> None, globs |-> None, always_apply |-> None,
     authors |-> None, tags |-> None, version |-> None]

\* serde_yaml::from_str::<CursorMetadata>
from_str_CursorMetadata(text) ==
    LET m == yaml_mapping(text)
        kind == struct_kind(m, "cursor")
    IN  IF kind # "ok" THEN Outcome(kind, CursorMetadataDefault)
        ELSE Outcome("ok",
                [name |-> struct_get(m, KeyName, "cursor"),
                 description |-> struct_get(m, KeyDescription, "cursor"),
                 globs |-> struct_get(m, KeyGlobs, "cursor"),
                 always_apply |-> struct_get(m, KeyAlwaysApply, "cursor"),
                 authors |-> struct_get(m, KeyAuthors, "cursor"),
                 tags |-> struct_get(m, KeyTags, "cursor"),
                 version |-> struct_get(m, KeyVersion, "cursor")])

GithubMetadataDefault ==
    [description |-> None, apply_to |-> None,
     description_present |-> FALSE, apply_to_present |-> FALSE]

\* serde_yaml::from_str::<GithubMetadata>: the presence flags are not read
from_str_GithubMetadata(text) ==
    LET m == yaml_mapping(text)
        kind == struct_kind(m, "github")
    IN  IF kind # "ok" THEN Outcome(kind, GithubMetadataDefault)
        ELSE Outcome("ok",
                [description |-> struct_get(m, KeyDescription, "github"),
                 apply_to |-> struct_get(m, KeyApplyTo, "github"),
                 description_present |-> FALSE, apply_to_present |-> FALSE])

(***************************************************************************)
(* Schema Translator.                                                      *)
(***************************************************************************)
\* a translator that gives "**" whenever alwaysApply is given, true or false
translate_cursor_to_github_any_flag(cursor_meta, field_info) ==
    [description |-> cursor_meta.description,
     apply_to |->
        IF IsSome(cursor_meta.always_apply) THEN Some(StarStar)
        ELSE IF IsSome(cursor_meta.globs)
             THEN IF Unwrap(cursor_meta.globs) # <<>>
                  THEN Some(join(Unwrap(cursor_meta.globs), Comma))
                  ELSE None
        ELSE None,
     description_present |-> field_info.description_present,
     apply_to_present |-> field_info.globs_present]

\* a translator that joins the patterns with a comma and a blank
translate_cursor_to_github_spaced(cursor_meta, field_info) ==
    [description |-> cursor_meta.description,
     apply_to |->
        IF cursor_meta.always_apply = Some(TRUE) THEN Some(StarStar)
        ELSE IF IsSome(cursor_meta.globs)
             THEN IF Unwrap(cursor_meta.globs) # <<>>
                  THEN Some(join(Unwrap(cursor_meta.globs), CommaSpace))
                  ELSE None
        ELSE None,
     description_present |-> field_info.description_present,
     apply_to_present |-> field_info.globs_present]

\* a translator that puts the patterns side by side with nothing between them
translate_cursor_to_github_unseparated(cursor_meta, field_info) ==
    [description |-> cursor_meta.description,
     apply_to |->
        IF cursor_meta.always_apply = Some(TRUE) THEN Some(StarStar)
        ELSE IF IsSome(cursor_meta.globs)
             THEN IF Unwrap(cursor_meta.globs) # <<>>
                  THEN Some(join(Unwrap(cursor_meta.globs), <<>>))
                  ELSE None
        ELSE None,
     description_present |-> field_info.description_present,
     apply_to_present |-> field_info.globs_present]

\* A -> B: the GithubMetadata literal of convert_mdc_to_md
translate_cursor_to_github(cursor_meta, field_info) ==
    [description |-> cursor_meta.description,
     apply_to |->
        IF cursor_meta.always_apply = Some(TRUE) THEN Some(StarStar)
        ELSE IF IsSome(cursor_meta.globs)
             THEN IF Unwrap(cursor_meta.globs) # <<>>
                  THEN Some(join(Unwrap(cursor_meta.globs), Comma))
                  ELSE None
        ELSE None,
     description_present |-> field_info.description_present,
     apply_to_present |-> field_info.globs_present]

\* a B -> A translator that keeps the pieces of applyTo untrimmed
translate_github_to_cursor_untrimmed(github_meta) ==
    LET with_description ==
            [CursorMetadataDefault EXCEPT !.description = github_meta.description]
    IN  IF IsSome(github_meta.apply_to)
        THEN IF Unwrap(github_meta.apply_to) = StarStar
             THEN [with_description EXCEPT !.always_apply = Some(TRUE),
                                           !.globs = Some(<<>>)]
             ELSE [with_description EXCEPT
                      !.always_apply = Some(FALSE),
                      !.globs = Some(split_char(Unwrap(github_meta.apply_to), ","))]
        ELSE with_description

\* B -> A: the CursorMetadata built by convert_md_to_mdc
translate_github_to_cursor(github_meta) ==
    LET with_description ==
            [CursorMetadataDefault EXCEPT !.description = github_meta.description]
    IN  IF IsSome(github_meta.apply_to)
        THEN IF Unwrap(github_meta.apply_to) = StarStar
             THEN [with_description EXCEPT !.always_apply = Some(TRUE),
                                           !.globs = Some(<<>>)]
             ELSE LET pieces == split_char(Unwrap(github_meta.apply_to), ",")
                  IN  [with_description EXCEPT
                          !.always_apply = Some(FALSE),
                          !.globs = Some([i \in 1..Len(pieces) |-> trim(pieces[i])])]
        ELSE with_description

(***************************************************************************)
(* Metadata Encoder.                                                       *)
(***************************************************************************)
\* an encoder that drops every key whose value is absent
serialize_github_field_value_only(key, present, value) ==
    IF IsSome(value)
    THEN IF Unwrap(value) = <<>> /\ present
         THEN key \o Colon \o NL
         ELSE key \o <<":", " ", DQ>> \o Unwrap(value) \o <<DQ>> \o NL
    ELSE <<>>

\* one key of serialize_github_metadata
serialize_github_field(key, present, value) ==
    IF present
    THEN IF IsSome(value)
         THEN IF Unwrap(value) = <<>>
              THEN key \o Colon \o NL
              ELSE key \o <<":", " ", DQ>> \o Unwrap(value) \o <<DQ>> \o NL
         ELSE key \o Colon \o NL
    ELSE IF IsSome(value)
         THEN key \o <<":", " ", DQ>> \o Unwrap(value) \o <<DQ>> \o NL
         ELSE <<>>

serialize_github_metadata(meta) ==
    serialize_github_field(KeyDescription, meta.description_present, meta.description)
    \o serialize_github_field(KeyApplyTo, meta.apply_to_present, meta.apply_to)

\* serde_yaml::to_string of a string: plain where a plain scalar reads back
\* as the same string, single-quoted otherwise, double-quoted (escaped) when
\* it holds a character that is not printable
yaml_plain_safe(v) ==
    /\ v # <<>>
    /\ yaml_plain_type(v) = "str"
    /\ v[1] \notin YamlIndicators \cup {DQ, SQ}
    /\ ~yaml_block_entry(v)
    /\ ~starts_with(v, DELIM)
    /\ v[1] # " " /\ v[Len(v)] # " "
    /\ ~contains(v, <<":", " ">>) /\ ~ends_with(v, Colon)
    /\ ~contains(v, <<" ", "#">>)

RECURSIVE yaml_escaped(_)
yaml_escaped(v) ==
    IF v = <<>> THEN <<>>
    ELSE (CASE Head(v) = "BEL" -> <<"\\", "a">>
            [] Head(v) = "\t" -> <<"\\", "t">>
            [] Head(v) = "\n" -> <<"\\", "n">>
            [] Head(v) = "\\" -> <<"\\", "\\">>
            [] Head(v) = DQ -> <<"\\", DQ>>
            [] OTHER -> <<Head(v)>>) \o yaml_escaped(Tail(v))

RECURSIVE yaml_doubled(_)
yaml_doubled(v) ==
    IF v = <<>> THEN <<>>
    ELSE (IF Head(v) = SQ THEN <<SQ, SQ>> ELSE <<Head(v)>>) \o yaml_doubled(Tail(v))

yaml_emit_string(v) ==
    IF \E i \in 1..Len(v) : v[i] \in {"BEL", "\t", "\n"}
    THEN <<DQ>> \o yaml_escaped(v) \o <<DQ>>
    ELSE IF yaml_plain_safe(v) THEN v
    ELSE <<SQ>> \o yaml_doubled(v) \o <<SQ>>

yaml_emit_opt_string(key, value) ==
    IF IsSome(value) THEN key \o <<":", " ">> \o yaml_emit_string(Unwrap(value)) \o NL
    ELSE <<>>

RECURSIVE yaml_emit_items(_)
yaml_emit_items(items) ==
    IF items = <<>> THEN <<>>
    ELSE <<"-", " ">> \o yaml_emit_string(Head(items)) \o NL \o yaml_emit_items(Tail(items))

yaml_emit_opt_vec(key, value) ==
    IF ~IsSome(value) THEN <<>>
    ELSE IF Unwrap(value) = <<>> THEN key \o <<":", " ", "[", "]">> \o NL
    ELSE key \o Colon \o NL \o yaml_emit_items(Unwrap(value))

yaml_emit_opt_bool(key, value) ==
    IF ~IsSome(value) THEN <<>>
    ELSE key \o <<":", " ">> \o (IF Unwrap(value) THEN TextTrue ELSE TextFalse) \o NL

\* serde_yaml::to_string(&CursorMetadata): the fields that are Some, in the
\* order of the struct; a struct with none is the empty mapping {}
to_string_CursorMetadata(meta) ==
    LET text == yaml_emit_opt_string(KeyName, meta.name)
                \o yaml_emit_opt_string(KeyDescription, meta.description)
                \o yaml_emit_opt_vec(KeyGlobs, meta.globs)
                \o yaml_emit_opt_bool(KeyAlwaysApply, meta.always_apply)
                \o yaml_emit_opt_vec(KeyAuthors, meta.authors)
                \o yaml_emit_opt_vec(KeyTags, meta.tags)
                \o yaml_emit_opt_string(KeyVersion, meta.version)
    IN  IF text = <<>> THEN <<"{", "}">> \o NL ELSE text

(***************************************************************************)
(* The conversion of one file.  The value is what the function leaves      *)
(* behind: kind "ok" and the text written to the target, or "err"/"panic"  *)
(* and nothing written; the intermediate values are kept for inspection.   *)
(***************************************************************************)
reassemble(frontmatter_yaml, body) ==
    DELIM \o NL \o frontmatter_yaml \o DELIM \o NL \o NL \o body

Conversion(kind, output, parsed, pre, cmeta, gmeta, yaml) ==
    [kind |-> kind, output |-> output, parsed |-> parsed, preprocessed |-> pre,
     cursor_meta |-> cmeta, github_meta |-> gmeta, frontmatter_yaml |-> yaml]

\* convert_mdc_to_md, stage by stage; each stage hands what it computed to
\* the next one

\* lines 116-121: the output content
mdc_to_md_encoded(parsed, pre, cmeta, gmeta, yaml) ==
    Conversion("ok", reassemble(yaml, parsed.body), parsed, pre, cmeta, gmeta, yaml)

\* lines 93-117: the translation, then the encoder
mdc_to_md_translated(parsed, pre, cmeta, gmeta) ==
    mdc_to_md_encoded(parsed, pre, cmeta, gmeta, serialize_github_metadata(gmeta))

\* lines 90-91: a decoding that failed ends the conversion
mdc_to_md_decoded(parsed, pre, dec) ==
    IF dec.kind # "ok"
    THEN Conversion(dec.kind, <<>>, parsed, pre, CursorMetadataDefault,
                    GithubMetadataDefault, <<>>)
    ELSE mdc_to_md_translated(parsed, pre, dec.v,
                              translate_cursor_to_github(dec.v, parsed.field_info))

\* lines 88-91
mdc_to_md_preprocessed(parsed, pre) ==
    mdc_to_md_decoded(parsed, pre, from_str_CursorMetadata(pre))

\* lines 86-121: without a header the body is the output
mdc_to_md_parsed(parsed) ==
    IF ~IsSome(parsed.frontmatter)
    THEN Conversion("ok", parsed.body, parsed, <<>>, CursorMetadataDefault,
                    GithubMetadataDefault, <<>>)
    ELSE mdc_to_md_preprocessed(parsed, preprocess_frontmatter(Unwrap(parsed.frontmatter)))

convert_mdc_to_md(text) ==
    mdc_to_md_parsed(parse_frontmatter_with_field_info(text))

\* convert_md_to_mdc, stage by stage

\* lines 116-122: the output content
md_to_mdc_encoded(parsed, cmeta, gmeta, yaml) ==
    Conversion("ok", reassemble(yaml, parsed.body), parsed, <<>>, cmeta, gmeta, yaml)

\* lines 95-118: the translation, then serde_yaml::to_string
md_to_mdc_translated(parsed, cmeta, gmeta) ==
    md_to_mdc_encoded(parsed, cmeta, gmeta, to_string_CursorMetadata(cmeta))

\* lines 92-93: a decoding that failed ends the conversion
md_to_mdc_decoded(parsed, dec) ==
    IF dec.kind # "ok"
    THEN Conversion(dec.kind, <<>>, parsed, <<>>, CursorMetadataDefault,
                    GithubMetadataDefault, <<>>)
    ELSE md_to_mdc_translated(parsed, translate_github_to_cursor(dec.v), dec.v)

\* lines 91-122: without a header the body is the output
md_to_mdc_parsed(parsed) ==
    IF ~IsSome(parsed.frontmatter)
    THEN Conversion("ok", parsed.body, parsed, <<>>, CursorMetadataDefault,
                    GithubMetadataDefault, <<>>)
    ELSE md_to_mdc_decoded(parsed, from_str_GithubMetadata(Unwrap(parsed.frontmatter)))

\* line 88: parse_frontmatter drops the presence flags
without_field_info(p) ==
    [frontmatter |-> p.frontmatter, body |-> p.body, field_info |-> FieldInfoDefault]

convert_md_to_mdc(text) ==
    md_to_mdc_parsed(without_field_info(parse_frontmatter(text)))

(***************************************************************************)
(* SpecSplit: the splitter applied to every document of at most MaxLines   *)
(* lines drawn from SplitLines.                                            *)
(***************************************************************************)
SplitLines ==
    { DELIM,                                   \* ---
      DELIM \o <<"a">>,                        \* ---a
      DELIM \o <<" ">>,                        \* "--- "
      <<" ">> \o DELIM,                        \* " ---"
      <<>>,                                    \* an empty line
      <<"a">>,
      <<" ", "a">>,
      <<"a", "\r">> }                          \* a line that ends in CR LF

RECURSIVE LineSeqs(_)
LineSeqs(n) ==
    IF n = 0 THEN {<<>>}
    ELSE LET shorter == LineSeqs(n - 1)
         IN  shorter \cup {Append(p, l) : p \in {q \in shorter : Len(q) = n - 1},
                                           l \in SplitLines}

SplitDocs == {join(ls, NL) : ls \in LineSeqs(MaxLines)}

NoResult == [frontmatter |-> None, body |-> <<>>, field_info |-> FieldInfoDefault]
NoOutcome == Outcome("none", None)

SplitIdle == content = <<>> /\ split = NoResult
GlobsIdle == patterns = <<>> /\ decoded_c = NoOutcome /\ decoded_d = NoOutcome
NormIdle == header = <<>> /\ pre1 = <<>> /\ pre2 = <<>>
NoConversion ==
    Conversion("none", <<>>, NoResult, <<>>, CursorMetadataDefault, GithubMetadataDefault, <<>>)
ConvIdle == source = <<>> /\ conv = NoConversion /\ resplit = NoResult /\ back = NoConversion
BatchIdle ==
    /\ direction = "none" /\ source_dir = {} /\ source_files = <<>>
    /\ target_dir = {} /\ success_count = 0 /\ error_count = 0
TransIdle ==
    /\ cursor_rec = CursorMetadataDefault
    /\ presence = FieldInfoDefault
    /\ github_rec = GithubMetadataDefault
    /\ emitted = <<>>
RoundIdle == back_rec = CursorMetadataDefault
DecodeIdle == globs_value = None /\ globs_result = NoOutcome
ScanIdle == scan_header = <<>> /\ scan_info = FieldInfoDefault

InitSplit ==
    /\ pc = "split"
    /\ content \in SplitDocs
    /\ split = NoResult
    /\ GlobsIdle /\ NormIdle /\ ConvIdle /\ BatchIdle /\ TransIdle
    /\ RoundIdle /\ DecodeIdle /\ ScanIdle

Split ==
    /\ pc = "split"
    /\ split' = parse_frontmatter_with_field_info(content)
    /\ pc' = "split_done"
    /\ UNCHANGED <<content, globsVars, normVars, convVars, batchVars, transVars,
                   roundVars, decodeVars, scanVars>>

NextSplit == Split

SpecSplit == InitSplit /\ [][NextSplit]_vars

\* the document opens with a delimiter line: the first line of the trimmed
\* text is exactly --- once trimmed
HasLeadingDelimiterLine(text) ==
    LET ls == lines(trim(text)) IN ls # <<>> /\ trim(ls[1]) = DELIM

\* C1: every document with no leading delimiter line splits into no header
\* and a body equal to the trimmed input.
C1_NoDelimiterNoHeader ==
    (pc = "split_done" /\ ~HasLeadingDelimiterLine(content))
        => (split.frontmatter = None /\ split.body = trim(content))

\* the trimmed document starts with the delimiter, as the splitter tests it
StartsWithDelimiter(text) == starts_with(trim(text), DELIM)

\* line i of the trimmed document (i >= 2) is a closing delimiter line
IsClosingLine(text, i) == trim(lines(trim(text))[i]) = DELIM

HasClosingLine(text) == \E i \in 2..Len(lines(trim(text))) : IsClosingLine(text, i)

\* C13: a document that starts with the delimiter but has fewer than 3
\* lines, or no later line that is the delimiter once trimmed, splits into
\* no header, the whole trimmed text as body and all-false presence flags.
C13_MalformedHeaderIsNoHeader ==
    (/\ pc = "split_done"
     /\ StartsWithDelimiter(content)
     /\ (Len(lines(trim(content))) < 3 \/ ~HasClosingLine(content)))
        => split = [frontmatter |-> None, body |-> trim(content),
                    field_info |-> FieldInfoDefault]

C13_Witness ==
    /\ pc = "split_done"
    /\ StartsWithDelimiter(content)
    /\ Len(lines(trim(content))) = 2
    /\ IsClosingLine(content, 2)
    /\ split.frontmatter = None

\* the text that follows the first n line terminators of text
RECURSIVE after_lines(_, _)
after_lines(text, n) ==
    IF n = 0 THEN text
    ELSE IF find(text, "\n") = 0 THEN <<>>
    ELSE after_lines(SubSeq(text, find(text, "\n") + 1, Len(text)), n - 1)

\* the document has a header: it starts with the delimiter, has at least 3
\* lines and a closing delimiter line
HasHeader(text) ==
    StartsWithDelimiter(text) /\ Len(lines(trim(text))) >= 3 /\ HasClosingLine(text)

\* e is the first closing delimiter line and the header is the lines
\* between the opening line and line e, rejoined with newlines
HeaderEndsAt(text, e) ==
    /\ IsClosingLine(text, e)
    /\ \A j \in 2..(e - 1) : ~IsClosingLine(text, j)
    /\ split.frontmatter = Some(join(SubSeq(lines(trim(text)), 2, e - 1), NL))
    /\ (e = 2 => split.frontmatter = Some(<<>>) /\ split.frontmatter # None)

Patterns ==
    { <<"a">>, <<"*", "*">>, <<"*", "a">>, <<"#", "a">>,
      <<"a", "\\">>, <<"\\", "a">>, <<"\\", "\\">>, <<"\\", "*">> }

RECURSIVE PatternLists(_)
PatternLists(n) ==
    IF n = 0 THEN {<<>>}
    ELSE LET shorter == PatternLists(n - 1)
         IN  shorter \cup {Append(p, x) : p \in {q \in shorter : Len(q) = n - 1},
                                           x \in Patterns}

GlobsPrefix == KeyGlobs \o <<":", " ">>

\* globs: "p1,p2"
encoding_c(ps) == GlobsPrefix \o <<DQ>> \o join(ps, Comma) \o <<DQ>>

\* globs: "p1", "p2"
encoding_d(ps) == GlobsPrefix \o join(requote(ps), CommaSpace)

\* lines 88-91 of convert_mdc_to_md, reduced to the globs field
decode_globs_line(line) ==
    LET dec == from_str_CursorMetadata(preprocess_frontmatter(line))
    IN  Outcome(dec.kind, dec.v.globs)

InitGlobs ==
    /\ pc = "globs"
    /\ patterns \in {ps \in PatternLists(MaxPatterns) : Len(ps) >= 2}
    /\ decoded_c = NoOutcome /\ decoded_d = NoOutcome
    /\ SplitIdle /\ NormIdle /\ ConvIdle /\ BatchIdle /\ TransIdle
    /\ RoundIdle /\ DecodeIdle /\ ScanIdle

DecodeGlobs ==
    /\ pc = "globs"
    /\ decoded_c' = decode_globs_line(encoding_c(patterns))
    /\ decoded_d' = decode_globs_line(encoding_d(patterns))
    /\ pc' = "globs_done"
    /\ UNCHANGED <<patterns, splitVars, normVars, convVars, batchVars, transVars,
                   roundVars, decodeVars, scanVars>>

NextGlobs == DecodeGlobs

SpecGlobs == InitGlobs /\ [][NextGlobs]_vars

HasBackslash(ps) == \E i \in 1..Len(ps) : \E j \in 1..Len(ps[i]) : ps[i][j] = "\\"

\* C4 as stated: encodings c and d of every list of two or more patterns
\* (free of comma, quote, colon, bracket and whitespace) both decode to
\* exactly that list, in order.
C4_EncodingsAgree ==
    pc = "globs_done"
        => (decoded_c = Outcome("ok", Some(patterns)) /\ decoded_d = Outcome("ok", Some(patterns)))

\* C4 amended: the same, for patterns that also hold no backslash (inside
\* the double quotes the normalizer writes, a backslash starts an escape).
C4_EncodingsAgreeNoBackslash ==
    (pc = "globs_done" /\ ~HasBackslash(patterns))
        => (decoded_c = Outcome("ok", Some(patterns)) /\ decoded_d = Outcome("ok", Some(patterns)))

C4_Witness ==
    /\ pc = "globs_done"
    /\ Len(patterns) = 3
    /\ ~HasBackslash(patterns)
    /\ decoded_c.v = Some(patterns) /\ decoded_d.v = Some(patterns)

(***************************************************************************)
(* SpecNorm: the normalizer applied to every header of at most             *)
(* MaxHeaderLines lines drawn from NormLines, and then to its own output.  *)
(***************************************************************************)
NormKeys == { KeyGlobs, <<" ">> \o KeyGlobs \o <<" ">>, KeyTags }

NormValues ==
    { <<>>,
      <<" ", "[", "a", ",", " ", "b", "]">>,              \*  [a, b]
      <<" ", "[", DQ, "a", DQ, "]">>,                     \*  ["a"]
      <<" ", "[", ",", "]">>,                             \*  [,]
      <<" ", DQ, "a", ",", "b", DQ>>,                     \*  "a,b"
      <<" ", DQ, "a", DQ, ",", " ", DQ, "b", DQ>>,        \*  "a", "b"
      <<" ", SQ, "a", SQ, ",", " ", SQ, "b", SQ>>,        \*  'a', 'b'
      <<"a", ",", " ", "[", "b", "]">>,                   \* a, [b]   (no blank before)
      <<" ", ",", " ", ",">>,                             \*  , ,
      <<" ", DQ, ",", "a">>,                              \*  ",a
      <<" ", "a">> }

NormLines ==
    {k \o Colon \o v : k \in NormKeys, v \in NormValues}
        \cup {<<"a">>, <<>>, <<"a", "\r">>}

RECURSIVE NormLineSeqs(_)
NormLineSeqs(n) ==
    IF n = 0 THEN {<<>>}
    ELSE LET shorter == NormLineSeqs(n - 1)
         IN  shorter \cup {Append(p, l) : p \in {q \in shorter : Len(q) = n - 1},
                                           l \in NormLines}

NormHeaders == {join(ls, NL) : ls \in NormLineSeqs(MaxHeaderLines)}

InitNorm ==
    /\ pc = "norm"
    /\ header \in NormHeaders
    /\ pre1 = <<>> /\ pre2 = <<>>
    /\ SplitIdle /\ GlobsIdle /\ ConvIdle /\ BatchIdle /\ TransIdle
    /\ RoundIdle /\ DecodeIdle /\ ScanIdle

\* the first pass, as convert_mdc_to_md runs it
Preprocess ==
    /\ pc = "norm"
    /\ pre1' = preprocess_frontmatter(header)
    /\ pc' = "norm_once"
    /\ UNCHANGED <<header, pre2, splitVars, globsVars, convVars, batchVars, transVars,
                   roundVars, decodeVars, scanVars>>

\* the normalizer run on its own output
PreprocessAgain ==
    /\ pc = "norm_once"
    /\ pre2' = preprocess_frontmatter(pre1)
    /\ pc' = "norm_twice"
    /\ UNCHANGED <<header, pre1, splitVars, globsVars, convVars, batchVars, transVars,
                   roundVars, decodeVars, scanVars>>

NextNorm == Preprocess \/ PreprocessAgain

SpecNorm == InitNorm /\ [][NextNorm]_vars

\* a globs line whose value already starts with "["
IsBracketedGlobsLine(l) ==
    LET colon_pos == find(l, ":")
    IN  /\ colon_pos # 0
        /\ trim(SubSeq(l, 1, colon_pos - 1)) = KeyGlobs
        /\ starts_with(trim(SubSeq(l, colon_pos + 1, Len(l))), <<"[">>)

BracketedLinesKept ==
    /\ Len(lines(pre1)) = Len(lines(header))
    /\ \A i \in 1..Len(lines(header)) :
          IsBracketedGlobsLine(lines(header)[i]) => lines(pre1)[i] = lines(header)[i]

\* C5 as stated: the normalizer leaves every globs line whose value starts
\* with "[" as it is, and normalizing its own output changes nothing.
C5_NormalizeIdempotent ==
    /\ pc \in {"norm_once", "norm_twice"} => BracketedLinesKept
    /\ pc = "norm_twice" => pre2 = pre1

HasCarriageReturn(text) == \E i \in 1..Len(text) : text[i] = "\r"

\* C5 amended: bracketed globs lines are left as they are, and normalizing
\* the output again changes nothing when the header holds no carriage return.
C5_NormalizeIdempotentNoCR ==
    /\ pc \in {"norm_once", "norm_twice"} => BracketedLinesKept
    /\ (pc = "norm_twice" /\ ~HasCarriageReturn(header)) => pre2 = pre1

C5_Witness ==
    /\ pc = "norm_twice"
    /\ ~HasCarriageReturn(header)
    /\ \E i \in 1..Len(lines(header)) :
          IsBracketedGlobsLine(lines(header)[i]) /\ contains(lines(header)[i], Comma)
    /\ \E i \in 1..Len(lines(header)) : lines(pre1)[i] # lines(header)[i]

\* a line the normalizer may rewrite: it has a colon, its key is globs once
\* trimmed, and its value holds a comma and does not start with "["
MayBeRewritten(l) ==
    /\ find(l, ":") # 0
    /\ trim(SubSeq(l, 1, find(l, ":") - 1)) = KeyGlobs
    /\ contains(trim(SubSeq(l, find(l, ":") + 1, Len(l))), Comma)
    /\ ~starts_with(trim(SubSeq(l, find(l, ":") + 1, Len(l))), <<"[">>)

\* the output cut at its newlines: one piece a line, and the empty rest
OutputPieces == split_char(pre1, "\n")

\* C16: the output is one newline-terminated line for each line of the
\* header, in order, and every line that is not a globs line with a comma
\* and no leading "[" is copied character for character.
C16_NormalizerFrame ==
    pc \in {"norm_once", "norm_twice"} =>
        /\ Len(OutputPieces) = Len(lines(header)) + 1
        /\ OutputPieces[Len(OutputPieces)] = <<>>
        /\ \A i \in 1..Len(lines(header)) :
              ~MayBeRewritten(lines(header)[i]) => OutputPieces[i] = lines(header)[i]

C16_Witness ==
    /\ pc = "norm_once"
    /\ Len(lines(header)) = 2
    /\ MayBeRewritten(lines(header)[1]) /\ OutputPieces[1] # lines(header)[1]
    /\ ~MayBeRewritten(lines(header)[2]) /\ contains(lines(header)[2], Comma)
    /\ OutputPieces[2] = lines(header)[2]

(***************************************************************************)
(* SpecTrans: the translator and the A -> B encoder applied to records.    *)
(* A -> B starts from a decoded schema-A record and the presence flags of  *)
(* its header, B -> A from a decoded schema-B record.                      *)
(***************************************************************************)
TransDescriptions == { None, Some(<<>>), Some(<<"a">>), Some(<<"a", " ", DQ>>) }

TransPatterns == { <<"a">>, StarStar, <<>>, <<"b", ",", "c">> }

RECURSIVE GlobLists(_)
GlobLists(n) ==
    IF n = 0 THEN {<<>>}
    ELSE LET shorter == GlobLists(n - 1)
         IN  shorter \cup {Append(p, x) : p \in {q \in shorter : Len(q) = n - 1},
                                           x \in TransPatterns}

CursorRecords ==
    { [CursorMetadataDefault EXCEPT !.name = n, !.description = d, !.globs = g,
                                    !.always_apply = a] :
        n \in {None, Some(<<"r">>)}, d \in TransDescriptions,
        g \in {None} \cup {Some(l) : l \in GlobLists(MaxPatterns)},
        a \in {None, Some(TRUE), Some(FALSE)} }

FieldInfos == [description_present : BOOLEAN, globs_present : BOOLEAN]

ApplyTos ==
    { <<>>, StarStar, <<"a">>, <<"a", ",", "b">>, <<"a", ",", " ", "b", " ">>,
      <<" ", "*", "*">>, <<"*", "*", ",", "a">>, <<",">>, <<"*", "*", "*">> }

GithubRecords ==
    { [GithubMetadataDefault EXCEPT !.description = d, !.apply_to = t] :
        d \in TransDescriptions, t \in {None} \cup {Some(x) : x \in ApplyTos} }

InitTrans ==
    /\ SplitIdle /\ GlobsIdle /\ NormIdle /\ ConvIdle /\ BatchIdle
    /\ RoundIdle /\ DecodeIdle /\ ScanIdle
    /\ emitted = <<>>
    /\ \/ /\ pc = "a2b"
          /\ cursor_rec \in CursorRecords
          /\ presence \in FieldInfos
          /\ github_rec = GithubMetadataDefault
       \/ /\ pc = "b2a"
          /\ github_rec \in GithubRecords
          /\ presence = FieldInfoDefault
          /\ cursor_rec = CursorMetadataDefault

\* c2g.rs: the record is translated and the header text encoded
TranslateA2B ==
    /\ pc = "a2b"
    /\ github_rec' = translate_cursor_to_github(cursor_rec, presence)
    /\ emitted' = serialize_github_metadata(github_rec')
    /\ pc' = "a2b_done"
    /\ UNCHANGED <<cursor_rec, presence, splitVars, globsVars, normVars, convVars, batchVars,
                   roundVars, decodeVars, scanVars>>

\* g2c.rs: the record is translated
TranslateB2A ==
    /\ pc = "b2a"
    /\ cursor_rec' = translate_github_to_cursor(github_rec)
    /\ pc' = "b2a_done"
    /\ UNCHANGED <<github_rec, presence, emitted, splitVars, globsVars, normVars, convVars, batchVars,
                   roundVars, decodeVars, scanVars>>

NextTrans == TranslateA2B \/ TranslateB2A

SpecTrans == InitTrans /\ [][NextTrans]_vars

\* C6 as stated: applyTo is "**" exactly when alwaysApply is true.
C6_StarStarIffAlwaysApply ==
    pc = "a2b_done"
        => (github_rec.apply_to = Some(StarStar) <=> cursor_rec.always_apply = Some(TRUE))

\* C6 amended: applyTo is "**" exactly when alwaysApply is true or, with
\* alwaysApply not true, the globs list is the one-element list ["**"].
C6_StarStarIffAlwaysApplyOrStarGlob ==
    pc = "a2b_done"
        => (github_rec.apply_to = Some(StarStar)
              <=> (cursor_rec.always_apply = Some(TRUE) \/ cursor_rec.globs = Some(<<StarStar>>)))

C6_Witness ==
    /\ pc = "a2b_done"
    /\ cursor_rec.always_apply = Some(TRUE)
    /\ IsSome(cursor_rec.globs) /\ Len(Unwrap(cursor_rec.globs)) = 2
    /\ github_rec.apply_to = Some(StarStar)

\* text is the items, in order, with one comma between neighbours and
\* nothing else
RECURSIVE CommaJoined(_, _)
CommaJoined(items, text) ==
    IF Len(items) = 1 THEN text = items[1]
    ELSE /\ Len(text) > Len(items[1])
         /\ SubSeq(text, 1, Len(items[1])) = items[1]
         /\ text[Len(items[1]) + 1] = ","
         /\ CommaJoined(Tail(items), SubSeq(text, Len(items[1]) + 2, Len(text)))

\* C7: with alwaysApply not true, a non-empty globs list gives applyTo = the
\* items joined by commas, no list or an empty list gives no applyTo; the
\* description is carried over in every case.
C7_JoinedGlobs ==
    pc = "a2b_done" =>
        /\ github_rec.description = cursor_rec.description
        /\ cursor_rec.always_apply # Some(TRUE) =>
              IF IsSome(cursor_rec.globs) /\ Unwrap(cursor_rec.globs) # <<>>
              THEN /\ IsSome(github_rec.apply_to)
                   /\ CommaJoined(Unwrap(cursor_rec.globs), Unwrap(github_rec.apply_to))
              ELSE github_rec.apply_to = None

C7_Witness ==
    /\ pc = "a2b_done"
    /\ cursor_rec.always_apply = Some(FALSE)
    /\ cursor_rec.globs = Some(<<<<"a">>, StarStar, <<"b", ",", "c">>>>)
    /\ github_rec.apply_to = Some(<<"a", ",", "*", "*", ",", "b", ",", "c">>)
    /\ IsSome(cursor_rec.description)

\* C8: applyTo "**" gives alwaysApply true and globs []; any other applyTo
\* gives alwaysApply false and globs = its comma-separated pieces, trimmed,
\* in order; no applyTo gives neither; the description is carried over and
\* name, authors, tags and version are absent.
C8_ApplyToBack ==
    pc = "b2a_done" =>
        /\ cursor_rec.description = github_rec.description
        /\ cursor_rec.name = None /\ cursor_rec.authors = None
        /\ cursor_rec.tags = None /\ cursor_rec.version = None
        /\ IF github_rec.apply_to = None
           THEN cursor_rec.always_apply = None /\ cursor_rec.globs = None
           ELSE IF Unwrap(github_rec.apply_to) = StarStar
           THEN cursor_rec.always_apply = Some(TRUE) /\ cursor_rec.globs = Some(<<>>)
           ELSE LET pieces == split_char(Unwrap(github_rec.apply_to), ",")
                IN  /\ cursor_rec.always_apply = Some(FALSE)
                    /\ IsSome(cursor_rec.globs)
                    /\ Len(Unwrap(cursor_rec.globs)) = Len(pieces)
                    /\ \A i \in 1..Len(pieces) :
                          Unwrap(cursor_rec.globs)[i] = trim(pieces[i])

C8_Witness ==
    /\ pc = "b2a_done"
    /\ github_rec.apply_to = Some(<<"a", ",", " ", "b", " ">>)
    /\ cursor_rec.globs = Some(<<<<"a">>, <<"b">>>>)
    /\ cursor_rec.always_apply = Some(FALSE)

\* the header text holds a line for key / the line that is the key with an
\* empty value
EmitsKey(text, key) ==
    \E i \in 1..Len(lines(text)) : starts_with(lines(text)[i], key \o Colon)
EmitsEmptyKey(text, key) ==
    \E i \in 1..Len(lines(text)) : lines(text)[i] = key \o Colon

\* C9: a key is written exactly when it was present in the source header
\* (description: for description, globs: for applyTo) or its translated
\* value is present; present in the source with no translated value, it is
\* written with an empty value.
C9_PresenceDrivesEncoding ==
    pc = "a2b_done" =>
        /\ EmitsKey(emitted, KeyDescription)
              <=> (presence.description_present \/ IsSome(github_rec.description))
        /\ EmitsKey(emitted, KeyApplyTo)
              <=> (presence.globs_present \/ IsSome(github_rec.apply_to))
        /\ (presence.description_present /\ github_rec.description = None)
              => EmitsEmptyKey(emitted, KeyDescription)
        /\ (presence.globs_present /\ github_rec.apply_to = None)
              => EmitsEmptyKey(emitted, KeyApplyTo)

C9_Witness ==
    /\ pc = "a2b_done"
    /\ presence.description_present /\ github_rec.description = None
    /\ ~presence.globs_present /\ github_rec.apply_to = None
    /\ emitted = KeyDescription \o Colon \o NL

(***************************************************************************)
(* SpecConv: one file converted (convert_mdc_to_md or convert_md_to_mdc),  *)
(* its written output split again and, for A -> B, converted back.  The    *)
(* source files are built from the header lines and bodies below.          *)
(***************************************************************************)
KV(key, value) == <<key \o <<":", " ">> \o value>>
SingleQuoted(text) == <<SQ>> \o yaml_doubled(text) \o <<SQ>>

DescriptionTexts ==
    { <<>>, <<"a">>, <<"a", " ", "b">>, <<DQ>>, <<"a", "\\">>, <<"\\", "*">>,
      <<"a", ":", " ", "b">> }

\* the ways a header states its description: not at all, with no value, as a
\* plain scalar, or as a single-quoted scalar holding one of the texts
DescriptionLines ==
    { <<>>, <<KeyDescription \o Colon>>, KV(KeyDescription, <<"a">>) }
        \cup { KV(KeyDescription, SingleQuoted(t)) : t \in DescriptionTexts }

GlobsLines ==
    { <<>>, <<KeyGlobs \o Colon>>,
      KV(KeyGlobs, <<"[", "]">>),
      KV(KeyGlobs, <<"[", DQ, "a", DQ, "]">>),
      KV(KeyGlobs, <<DQ, "a", ",", "b", DQ>>),
      KV(KeyGlobs, <<DQ, "a", DQ, ",", " ", DQ, "b", DQ>>),
      KV(KeyGlobs, <<SQ, "*", "*", SQ>>),
      KV(KeyGlobs, <<"*", "*">>) }

AlwaysApplyLines ==
    { <<>>, KV(KeyAlwaysApply, TextTrue), KV(KeyAlwaysApply, TextFalse) }

NameLines == { <<>>, KV(KeyName, <<"r">>) }

ApplyToLines ==
    { <<>>, <<KeyApplyTo \o Colon>>,
      KV(KeyApplyTo, <<DQ, "*", "*", DQ>>),
      KV(KeyApplyTo, <<DQ, "a", ",", "b", DQ>>),
      KV(KeyApplyTo, <<DQ, "a", ",", " ", "b", DQ>>),
      KV(KeyApplyTo, <<DQ, DQ>>) }

Bodies == { <<>>, <<"b">>, <<"b", "\n", "\n", "-", "-", "-", "\n", "c">> }

Document(header_lines, body) ==
    DELIM \o NL \o concat_lines(header_lines) \o DELIM \o NL \o NL \o body \o NL

HeaderlessDocs ==
    { <<>>, <<"b">>, <<" ", "b", "\n">>, <<"-", "-", "\n", "b">>,
      \* ---a / name: r / --- / b: the first line is not a delimiter line
      DELIM \o <<"a">> \o NL \o KeyName \o <<":", " ", "r">> \o NL \o DELIM \o NL \o <<"b">> }

CursorDocs ==
    { Document(n \o d \o g \o a, b) :
        n \in NameLines, d \in DescriptionLines, g \in GlobsLines,
        a \in AlwaysApplyLines, b \in Bodies } \cup HeaderlessDocs

GithubDocs ==
    { Document(d \o t, b) : d \in DescriptionLines, t \in ApplyToLines, b \in Bodies }
        \cup HeaderlessDocs

InitConv ==
    /\ SplitIdle /\ GlobsIdle /\ NormIdle /\ BatchIdle /\ TransIdle
    /\ RoundIdle /\ DecodeIdle /\ ScanIdle
    /\ conv = NoConversion /\ resplit = NoResult /\ back = NoConversion
    /\ \/ pc = "c2g" /\ source \in CursorDocs
       \/ pc = "g2c" /\ source \in GithubDocs

\* convert_mdc_to_md on the source file
ConvertC2G ==
    /\ pc = "c2g"
    /\ conv' = convert_mdc_to_md(source)
    /\ pc' = IF conv'.kind = "ok" THEN "c2g_written" ELSE "c2g_failed"
    /\ UNCHANGED <<source, resplit, back, splitVars, globsVars, normVars, batchVars, transVars,
                   roundVars, decodeVars, scanVars>>

\* convert_md_to_mdc on the source file
ConvertG2C ==
    /\ pc = "g2c"
    /\ conv' = convert_md_to_mdc(source)
    /\ pc' = IF conv'.kind = "ok" THEN "g2c_written" ELSE "g2c_failed"
    /\ UNCHANGED <<source, resplit, back, splitVars, globsVars, normVars, batchVars, transVars,
                   roundVars, decodeVars, scanVars>>

\* the written output, split again
Resplit ==
    /\ pc \in {"c2g_written", "g2c_written"}
    /\ resplit' = parse_frontmatter_with_field_info(conv.output)
    /\ pc' = IF pc = "c2g_written" THEN "c2g_resplit" ELSE "g2c_resplit"
    /\ UNCHANGED <<source, conv, back, splitVars, globsVars, normVars, batchVars, transVars,
                   roundVars, decodeVars, scanVars>>

\* convert_md_to_mdc on the output convert_mdc_to_md wrote
ConvertBack ==
    /\ pc = "c2g_resplit"
    /\ back' = convert_md_to_mdc(conv.output)
    /\ pc' = "c2g_back"
    /\ UNCHANGED <<source, conv, resplit, splitVars, globsVars, normVars, batchVars, transVars,
                   roundVars, decodeVars, scanVars>>

NextConv == ConvertC2G \/ ConvertG2C \/ Resplit \/ ConvertBack

SpecConv == InitConv /\ [][NextConv]_vars

\* C2: the output written for a document with a well-formed header is a
\* document whose body, split again, is the body of the source, in either
\* direction and for every header and body.
C2_BodyPreserved ==
    (pc \in {"c2g_resplit", "g2c_resplit", "c2g_back"} /\ IsSome(conv.parsed.frontmatter))
        => resplit.body = conv.parsed.body

\* C3: A -> B -> A gives back a record with the description of the source
\* record, and alwaysApply = true goes to applyTo = "**" and comes back as
\* alwaysApply = true with globs = [].
C3_RoundTrip ==
    (pc = "c2g_back" /\ IsSome(conv.parsed.frontmatter)) =>
        /\ back.kind = "ok"
        /\ back.cursor_meta.description = conv.cursor_meta.description
        /\ conv.cursor_meta.always_apply = Some(TRUE) =>
              /\ conv.github_meta.apply_to = Some(StarStar)
              /\ back.cursor_meta.always_apply = Some(TRUE)
              /\ back.cursor_meta.globs = Some(<<>>)

(***************************************************************************)
(* SpecBatch: convert_cursor_to_github / convert_github_to_cursor over a   *)
(* source directory.  A path is [dir, name]: the directory relative to the *)
(* root ("" for the root itself) and the file name.                        *)
(***************************************************************************)
ExtMdc == <<".", "m", "d", "c">>
ExtMd == <<".", "m", "d">>
ExtInstructionsMd == <<".", "i", "n", "s", "t", "r", "u", "c", "t", "i", "o", "n", "s">> \o ExtMd

\* Path::file_stem: the name up to its last dot, the whole name when it has
\* no dot or only a leading one
file_stem(name) ==
    LET dots == {i \in 2..Len(name) : name[i] = "."}
    IN  IF dots = {} THEN name
        ELSE SubSeq(name, 1, (CHOOSE i \in dots : \A j \in dots : j <= i) - 1)

\* c2g.rs 36-41
cursor_target_path(path) ==
    [dir |-> path.dir, name |-> file_stem(path.name) \o ExtInstructionsMd]

\* g2c.rs 36-46
github_target_path(path) ==
    [dir |-> path.dir,
     name |-> IF ends_with(path.name, ExtInstructionsMd)
              THEN SubSeq(path.name, 1, Len(path.name) - Len(ExtInstructionsMd)) \o ExtMdc
              ELSE IF ends_with(path.name, ExtMd)
              THEN SubSeq(path.name, 1, Len(path.name) - Len(ExtMd)) \o ExtMdc
              ELSE file_stem(path.name) \o ExtMdc]

target_path(dir, path) ==
    IF dir = "c2g" THEN cursor_target_path(path) ELSE github_target_path(path)

convert_file(dir, text) ==
    IF dir = "c2g" THEN convert_mdc_to_md(text) ELSE convert_md_to_mdc(text)

\* fs::write: the file at path is created or replaced
fs_write(files, path, text) ==
    {f \in files : f.path # path} \cup {[path |-> path, text |-> text]}

CursorPaths ==
    { [dir |-> "", name |-> <<"a">> \o ExtMdc],
      [dir |-> "", name |-> <<"a">> \o ExtMd],
      [dir |-> "sub", name |-> <<"b">> \o ExtMdc] }

GithubPaths ==
    { [dir |-> "", name |-> <<"a">> \o ExtInstructionsMd],
      [dir |-> "", name |-> <<"a">> \o ExtMd],
      [dir |-> "sub", name |-> <<"b">> \o ExtMd] }

BatchCursorTexts ==
    { Document(KV(KeyDescription, <<"a">>) \o KV(KeyGlobs, <<DQ, "a", ",", "b", DQ>>), <<"b">>),
      <<"b">>,
      Document(KV(KeyGlobs, <<"*", "*">>), <<"b">>),          \* no YAML: an alias
      Document(KV(KeyGlobs, <<DQ, SQ, DQ>>), <<"b">>) }       \* globs: "'"

BatchGithubTexts ==
    { Document(KV(KeyDescription, <<"a">>) \o KV(KeyApplyTo, <<DQ, "a", ",", "b", DQ>>), <<"b">>),
      <<"b">>,
      Document(KV(KeyApplyTo, <<"[", "a", "]">>), <<"b">>) }  \* a list: no string

\* the directories a set of paths and texts can make: at most one file a path
Directories(paths, texts) ==
    LET assignments == [paths -> {None} \cup {Some(t) : t \in texts}]
    IN  { {[path |-> q, text |-> Unwrap(a[q])] : q \in {r \in paths : IsSome(a[r])}} :
            a \in assignments }

\* the orders the directory walk can yield the files of a directory in
RECURSIVE Orders(_)
Orders(files) ==
    IF files = {} THEN {<<>>}
    ELSE UNION { {<<f>> \o o : o \in Orders(files \ {f})} : f \in files }

InitBatch ==
    /\ SplitIdle /\ GlobsIdle /\ NormIdle /\ ConvIdle /\ TransIdle
    /\ RoundIdle /\ DecodeIdle /\ ScanIdle
    /\ pc = "batch_start"
    /\ \/ direction = "c2g" /\ source_dir \in Directories(CursorPaths, BatchCursorTexts)
       \/ direction = "g2c" /\ source_dir \in Directories(GithubPaths, BatchGithubTexts)
    /\ source_files = <<>>
    /\ target_dir = {}
    /\ success_count = 0 /\ error_count = 0

\* lines 16-28: the target directory is created (or the batch ends with that
\* error), the source files are found, in some order of the walk; with none
\* the batch returns at once
BatchStart ==
    /\ pc = "batch_start"
    /\ \/ /\ pc' = "batch_no_target"
          /\ UNCHANGED source_files
       \/ /\ source_dir = {}
          /\ pc' = "batch_no_files"
          /\ UNCHANGED source_files
       \/ /\ source_dir # {}
          /\ source_files' \in Orders(source_dir)
          /\ pc' = "batch_loop"
    /\ UNCHANGED <<direction, source_dir, target_dir, success_count, error_count,
                   splitVars, globsVars, normVars, convVars, transVars,
                   roundVars, decodeVars, scanVars>>

\* one turn of the loop, for the next source file: its target path, the
\* parent directory (a sub-directory may fail to be created), the conversion
\* and the write (which may fail), the counters
ConvertFile ==
    /\ pc = "batch_loop"
    /\ source_files # <<>>
    /\ \E file \in {Head(source_files)} :
       \E target \in {target_path(direction, file.path)} :
       \E result \in {convert_file(direction, file.text)} :
           \/ /\ file.path.dir # ""                 \* create_dir_all(parent) fails
              /\ pc' = "batch_loop"
              /\ UNCHANGED <<target_dir, success_count, error_count>>
           \/ /\ result.kind = "ok"                  \* converted and written
              /\ target_dir' = fs_write(target_dir, target, result.output)
              /\ success_count' = success_count + 1
              /\ pc' = "batch_loop"
              /\ UNCHANGED error_count
           \/ /\ result.kind = "ok"                  \* fs::write fails
              /\ error_count' = error_count + 1
              /\ pc' = "batch_loop"
              /\ UNCHANGED <<target_dir, success_count>>
           \/ /\ result.kind = "err"                 \* the decoding is an Err
              /\ error_count' = error_count + 1
              /\ pc' = "batch_loop"
              /\ UNCHANGED <<target_dir, success_count>>
           \/ /\ result.kind = "panic"               \* the thread unwinds
              /\ pc' = "batch_panicked"
              /\ UNCHANGED <<target_dir, success_count, error_count>>
    /\ source_files' = Tail(source_files)
    /\ UNCHANGED <<direction, source_dir, splitVars, globsVars, normVars, convVars, transVars,
                   roundVars, decodeVars, scanVars>>

\* lines 68-76: the summary
BatchSummary ==
    /\ pc = "batch_loop"
    /\ source_files = <<>>
    /\ pc' = IF error_count > 0 THEN "batch_done_with_errors" ELSE "batch_done_successfully"
    /\ UNCHANGED <<batchVars, splitVars, globsVars, normVars, convVars, transVars,
                   roundVars, decodeVars, scanVars>>

NextBatch == BatchStart \/ ConvertFile \/ BatchSummary

SpecBatch == InitBatch /\ [][NextBatch]_vars

DecodingFails(dir, text) == convert_file(dir, text).kind # "ok"

\* C10: a turn of the loop on a file whose header fails to decode writes
\* nothing, counts one error and goes on with the remaining files: the batch
\* is not aborted.
C10_FailureIsolated ==
    [][(/\ pc = "batch_loop" /\ source_files # <<>>
        /\ Head(source_files).path.dir = ""
        /\ DecodingFails(direction, Head(source_files).text))
          => /\ target_dir' = target_dir
             /\ error_count' = error_count + 1
             /\ pc' = "batch_loop"
             /\ source_files' = Tail(source_files)]_vars

\* the target directory the loop leaves behind for the files taken in the
\* order given, when every directory creation and every write succeeds
RECURSIVE batch_result(_, _, _)
batch_result(dir, files, target) ==
    IF files = <<>> THEN target
    ELSE batch_result(dir, Tail(files),
            IF convert_file(dir, Head(files).text).kind = "ok"
            THEN fs_write(target, target_path(dir, Head(files).path),
                          convert_file(dir, Head(files).text).output)
            ELSE target)

Convertible(dir, files) == {f \in files : convert_file(dir, f.text).kind = "ok"}

BatchDone == pc \in {"batch_done_with_errors", "batch_done_successfully"}

\* C11: when a batch has ended and every convertible file was written, the
\* target directory is what any processing order of the source files gives:
\* the order of the walk makes no difference.
C11_OrderIndependent ==
    (BatchDone /\ success_count = Cardinality(Convertible(direction, source_dir)))
        => \A o \in Orders(source_dir) : target_dir = batch_result(direction, o, {})

\* C20: when the loop has finished, success_count + error_count is the
\* number of source files found, and the summary "Conversion completed
\* successfully!" is given only if every source file was converted and
\* written, whatever the outcomes of the single files were.
C20_BatchAccounting ==
    BatchDone =>
        /\ success_count + error_count = Cardinality(source_dir)
        /\ pc = "batch_done_successfully" => success_count = Cardinality(source_dir)

\* a batch that ended "successfully" although a file in a sub-directory was
\* skipped and counted nowhere
C20_SkippedUncounted ==
    /\ pc = "batch_done_successfully"
    /\ \E f \in source_dir : f.path.dir # ""
    /\ success_count + error_count < Cardinality(source_dir)
    /\ \A t \in target_dir : t.path.dir = ""

\* C21: within one batch no two source files have the same target path: a
\* turn of the loop that writes a converted file never writes to a path
\* that an earlier turn of the same batch has written.
C21_NoTargetCollision ==
    [][(/\ pc = "batch_loop" /\ source_files # <<>>
        /\ success_count' = success_count + 1)
          => \A t \in target_dir :
                t.path # target_path(direction, Head(source_files).path)]_vars

\* the loop is about to convert a file whose target path was written by
\* an earlier turn for another source file
C21_CollisionPending ==
    /\ pc = "batch_loop" /\ source_files # <<>>
    /\ convert_file(direction, Head(source_files).text).kind = "ok"
    /\ \E t \in target_dir :
          /\ t.path = target_path(direction, Head(source_files).path)
          /\ \E f \in source_dir :
                /\ f.path # Head(source_files).path
                /\ target_path(direction, f.path) = t.path

Converted == pc \in {"c2g_written", "c2g_failed", "g2c_written", "g2c_failed"}

\* C12: a document with no leading delimiter line is converted, in either
\* direction, to an output that is the document itself, with no delimiter
\* and no metadata.  The document is compared without its surrounding
\* whitespace, which the splitter trims before anything else.
C12_HeaderlessPassThrough ==
    (Converted /\ ~HasLeadingDelimiterLine(source))
        => (conv.kind = "ok" /\ conv.output = trim(source))

(***************************************************************************)
(* SpecDecode: the globs field decoded from every value shape: the key     *)
(* absent, a null, a boolean, a string of at most MaxPieces comma-separated*)
(* pieces, a sequence.                                                     *)
(***************************************************************************)
DecodePieces ==
    { <<"a">>, <<" ", "a", " ">>, <<>>, <<" ">>,
      <<DQ, "a", DQ>>, <<SQ, "a", SQ>>, <<" ", DQ, "a", DQ>>, <<DQ, "a", SQ>>,
      <<DQ, DQ>>, <<DQ>>, <<SQ>>, <<DQ, DQ, "a", DQ, DQ>> }

RECURSIVE PieceLists(_)
PieceLists(n) ==
    IF n = 0 THEN {<<>>}
    ELSE LET shorter == PieceLists(n - 1)
         IN  shorter \cup {Append(p, x) : p \in {q \in shorter : Len(q) = n - 1},
                                           x \in DecodePieces}

DecodeStrings == {join(ps, Comma) : ps \in PieceLists(MaxPieces) \ {<<>>}}

DecodeSequences == { <<>>, <<<<"a">>>>, <<<<"b">>, <<"a">>>>, <<<<"a", ",", "b">>, <<>>>>, <<<<DQ>>>> }

DecodeValues ==
    {None, Some(Node("null", <<>>, <<>>)), Some(Node("bool", TextTrue, <<>>))}
        \cup {Some(Node("str", t, <<>>)) : t \in DecodeStrings}
        \cup {Some(Node("seq", <<>>, items)) : items \in DecodeSequences}

InitDecode ==
    /\ pc = "decode"
    /\ globs_value \in DecodeValues
    /\ globs_result = NoOutcome
    /\ SplitIdle /\ GlobsIdle /\ NormIdle /\ ConvIdle /\ BatchIdle /\ TransIdle
    /\ RoundIdle /\ ScanIdle

\* the globs field is decoded
DecodeValue ==
    /\ pc = "decode"
    /\ globs_result' = decode_globs_field(globs_value)
    /\ pc' = "decode_done"
    /\ UNCHANGED <<globs_value, splitVars, globsVars, normVars, convVars, batchVars,
                   transVars, roundVars, scanVars>>

NextDecode == DecodeValue

SpecDecode == InitDecode /\ [][NextDecode]_vars

\* t without one layer of matching surrounding quotes
Unquoted(t) ==
    IF Len(t) >= 2 /\ t[1] = t[Len(t)] /\ t[1] \in {DQ, SQ}
    THEN SubSeq(t, 2, Len(t) - 1) ELSE t

\* the list a string value stands for
ExpectedFromString(text) ==
    IF contains(text, Comma)
    THEN SelectSeq([i \in 1..Len(split_char(text, ",")) |->
                       Unquoted(trim(split_char(text, ",")[i]))],
                   LAMBDA x : x # <<>>)
    ELSE <<Unquoted(text)>>

IsShape(value, t) == IsSome(value) /\ Unwrap(value).t = t

\* C15: a string with a comma decodes to its trimmed, unquoted, non-blank
\* pieces; a string without a comma to the one-element list of itself
\* unquoted; a sequence to its elements in order; an absent key or a null
\* to no list (and not to the empty list).
C15_GlobsDecoderShapes ==
    pc = "decode_done" =>
        /\ IsShape(globs_value, "str") =>
              globs_result = Outcome("ok", Some(ExpectedFromString(Unwrap(globs_value).s)))
        /\ IsShape(globs_value, "seq") =>
              globs_result = Outcome("ok", Some(Unwrap(globs_value).items))
        /\ (globs_value = None \/ IsShape(globs_value, "null")) =>
              (globs_result = Outcome("ok", None) /\ globs_result.v # Some(<<>>))

\* C19: decoding returns a value or an error for every value: stripping the
\* quotes never aborts the conversion.
C19_QuoteStrippingTotal ==
    pc = "decode_done" => globs_result.kind \in {"ok", "err"}

(***************************************************************************)
(* SpecScan: analyze_frontmatter_fields applied to every header of at most *)
(* MaxScanLines lines drawn from ScanLines.                                *)
(***************************************************************************)
ScanLines ==
    { KeyDescription \o Colon,                                \* description:
      KeyDescription \o <<":", " ", "a">>,                     \* description: a
      <<" ", " ">> \o KeyDescription \o <<":", " ", "a">>,     \* indented
      KeyDescription \o <<" ", ":", " ", "a">>,                \* description : a
      KeyDescription,                                          \* no colon
      <<"x">> \o KeyDescription \o Colon,                      \* xdescription:
      KeyGlobs \o <<":", " ", "*", "*">>,                      \* globs: ** (no YAML)
      <<"\t">> \o KeyGlobs \o Colon \o <<"\r">>,               \* tab, globs:, CR
      KeyName \o <<":", " ">> \o KeyGlobs \o Colon,            \* name: globs:
      <<"#", " ">> \o KeyGlobs \o Colon,                       \* # globs:
      <<>> }

RECURSIVE ScanLineSeqs(_)
ScanLineSeqs(n) ==
    IF n = 0 THEN {<<>>}
    ELSE LET shorter == ScanLineSeqs(n - 1)
         IN  shorter \cup {Append(p, l) : p \in {q \in shorter : Len(q) = n - 1},
                                           l \in ScanLines}

ScanHeaders == {join(ls, NL) : ls \in ScanLineSeqs(MaxScanLines)}

InitScan ==
    /\ pc = "scan"
    /\ scan_header \in ScanHeaders
    /\ scan_info = FieldInfoDefault
    /\ SplitIdle /\ GlobsIdle /\ NormIdle /\ ConvIdle /\ BatchIdle /\ TransIdle
    /\ RoundIdle /\ DecodeIdle

\* the header is scanned for its keys
ScanHeader ==
    /\ pc = "scan"
    /\ scan_info' = analyze_frontmatter_fields(scan_header)
    /\ pc' = "scan_done"
    /\ UNCHANGED <<scan_header, splitVars, globsVars, normVars, convVars, batchVars,
                   transVars, roundVars, decodeVars>>

NextScan == ScanHeader

SpecScan == InitScan /\ [][NextScan]_vars

\* some line of the text, cut at its newlines and trimmed, starts with key:
SomeLineStartsWith(text, key) ==
    \E i \in 1..Len(split_char(text, "\n")) :
        starts_with(trim(split_char(text, "\n")[i]), key \o Colon)

\* C17: description_present is true exactly when some header line, once
\* trimmed, starts with "description:", and globs_present exactly when some
\* line, once trimmed, starts with "globs:"; what the header decodes to
\* plays no part.
C17_PresenceIsTextualPrefix ==
    pc = "scan_done" =>
        /\ scan_info.description_present <=> SomeLineStartsWith(scan_header, KeyDescription)
        /\ scan_info.globs_present <=> SomeLineStartsWith(scan_header, KeyGlobs)

\* both keys found, the first with no value and the second in a header that
\* does not decode
C17_Witness ==
    /\ pc = "scan_done"
    /\ scan_info.description_present /\ scan_info.globs_present
    /\ from_str_CursorMetadata(scan_header).kind = "err"
    /\ yaml_value(SubSeq(lines(scan_header)[1], Len(KeyDescription) + 2,
                         Len(lines(scan_header)[1]))).t = "null"

(***************************************************************************)
(* SpecRound: a schema-A record translated A -> B by convert_mdc_to_md and *)
(* the result translated B -> A by convert_md_to_mdc.                      *)
(***************************************************************************)
RoundPatterns ==
    { <<"a">>, StarStar, <<"a", " ", "b">>, <<"*", ".", "r">>,
      <<>>, <<" ", "a">>, <<"b", ",", "c">> }

RECURSIVE RoundLists(_)
RoundLists(n) ==
    IF n = 0 THEN {<<>>}
    ELSE LET shorter == RoundLists(n - 1)
         IN  shorter \cup {Append(p, x) : p \in {q \in shorter : Len(q) = n - 1},
                                           x \in RoundPatterns}

RoundRecords ==
    { [CursorMetadataDefault EXCEPT !.description = d, !.globs = g, !.always_apply = a] :
        d \in {None, Some(<<"a">>)},
        g \in {None} \cup {Some(l) : l \in RoundLists(MaxPatterns)},
        a \in {None, Some(TRUE), Some(FALSE)} }

InitRound ==
    /\ SplitIdle /\ GlobsIdle /\ NormIdle /\ ConvIdle /\ BatchIdle
    /\ DecodeIdle /\ ScanIdle
    /\ pc = "a2b"
    /\ cursor_rec \in RoundRecords
    /\ presence \in {FieldInfoDefault, [description_present |-> TRUE, globs_present |-> TRUE]}
    /\ github_rec = GithubMetadataDefault
    /\ emitted = <<>>
    /\ back_rec = CursorMetadataDefault

\* g2c.rs: the schema-B record obtained from A -> B is translated back
TranslateBack ==
    /\ pc = "a2b_done"
    /\ back_rec' = translate_github_to_cursor(github_rec)
    /\ pc' = "a2b_back"
    /\ UNCHANGED <<transVars, splitVars, globsVars, normVars, convVars, batchVars,
                   decodeVars, scanVars>>

NextRound == TranslateA2B \/ TranslateBack

SpecRound == InitRound /\ [][NextRound]_vars

\* no pattern is empty, holds a comma, or starts or ends with white space
CleanPatterns(l) ==
    \A i \in 1..Len(l) :
        /\ l[i] # <<>>
        /\ \A k \in 1..Len(l[i]) : l[i][k] # ","
        /\ ~IsWs(l[i][1]) /\ ~IsWs(l[i][Len(l[i])])

RoundTripCase ==
    /\ pc = "a2b_back"
    /\ cursor_rec.always_apply # Some(TRUE)
    /\ IsSome(cursor_rec.globs)
    /\ Unwrap(cursor_rec.globs) # <<>>
    /\ CleanPatterns(Unwrap(cursor_rec.globs))

\* C18 as stated: with alwaysApply not true and a non-empty list of clean
\* patterns, A -> B -> A gives back the same patterns in the same order.
C18_PatternListRoundTrip ==
    RoundTripCase => back_rec.globs = cursor_rec.globs

\* C18 amended: the same, for every such list other than the one-pattern
\* list ["**"], whose join is the string that B -> A reads as "always apply".
C18_PatternListRoundTripButStarStar ==
    (RoundTripCase /\ cursor_rec.globs # Some(<<StarStar>>))
        => back_rec.globs = cursor_rec.globs

\* three patterns, "**" among them and one with a blank inside, come back
C18_Witness ==
    /\ RoundTripCase
    /\ cursor_rec.always_apply = Some(FALSE)
    /\ cursor_rec.globs = Some(<<StarStar, <<"a", " ", "b">>, <<"*", ".", "r">>>>)
    /\ github_rec.apply_to = Some(<<"*", "*", ",", "a", " ", "b", ",", "*", ".", "r">>)
    /\ back_rec.globs = cursor_rec.globs

====
